---- MODULE Spec2Model ----
(***************************************************************************)
(* LogisticRegressionPortfolioOptimizer (src/LR.py): one optimizer object, *)
(* its data / models / allocations fields, and its methods load_data,      *)
(* preprocess_data, train_models and predict_daily_allocations.            *)
(*                                                                         *)
(* Numbers.  Prices are integers.  A return is kept in basis points        *)
(* (1e-4), rounded to nearest; a normalised feature is kept in 1e-4 units  *)
(* as well.  A float is <<x>> and NaN is <<>>; None is <<>> as well.       *)
(*                                                                         *)
(* Library behaviour the methods rely on is modelled from the library:     *)
(*   pandas   pct_change, shift, fillna, the boolean date mask;            *)
(*   sklearn  train_test_split(test_size=0.2, random_state=42),            *)
(*            StandardScaler.fit / transform (NaN passes through),         *)
(*            LogisticRegression.fit (ValueError on a single class),       *)
(*            LogisticRegression.predict (ValueError on NaN input).        *)
(* The coefficients lbfgs converges to are not computed: they are a fixed  *)
(* but arbitrary function of the asset (variable lbfgs), so that fitting   *)
(* the same data twice gives the same classifier.                          *)
(***************************************************************************)
EXTENDS Integers, Sequences, FiniteSets, TLC

\* ------------------------------------------------------------------ bounds
\* number of rows (trading dates) of the downloaded price table
NDates == 4
\* number of predict_daily_allocations calls made on the object
MaxCalls == 2

\* ------------------------------------------------------------ the inputs
\* A float is <<x>>, NaN is <<>>: a cell, a return, a feature
NaN == <<>>
Num(x) == <<x>>
IsNaN(v) == v = <<>>
Val(v) == v[1]

\* the constructor's tickers argument, in list order
Tickers == <<"A", "B">>
TickerSet == {Tickers[i] : i \in 1..Len(Tickers)}

\* row positions of the ascending, unique DatetimeIndex
Dates == 1..NDates
\* the closing-price columns yf.download may return for an asset: the five-day
\* scenario 100, 101, 99, 99, 102 (repeating), a flat, a rising and an
\* alternating column
SeriesNames == {"scenario", "flat", "rising", "zigzag"}
Column(name) ==
    [t \in Dates |->
        CASE name = "scenario" -> Num(<<100, 101, 99, 99, 102>>[((t - 1) % 5) + 1])
          [] name = "flat" -> Num(100)
          [] name = "rising" -> Num(99 + t)
          [] name = "zigzag" -> Num(100 + (t % 2))]
SeriesPool == {Column(name) : name \in SeriesNames}
\* closing prices / gaps a cell may hold where every column is tried
GapPriceValues == {Num(99), Num(100), Num(101), NaN}
\* pandas' pct_change default: "pad" (pandas < 3) or no filling (pandas >= 3)
FillMethods == {"pad", "none"}

\* classifiers lbfgs may return: coef_ and intercept_ of a one-feature model
ClassifierParams == {[coef |-> 1, intercept |-> 0], [coef |-> -1, intercept |-> 1]}

\* ------------------------------------------------------------- arithmetic
\* num/den in units of 1e-4, rounded to nearest (den > 0)
Frac(num, den) ==
    IF num >= 0 THEN (num * 10000 + den \div 2) \div den
    ELSE -(((-num) * 10000 + den \div 2) \div den)

RECURSIVE SqrtFrom(_, _)
SqrtFrom(v, r) == IF (r + 1) * (r + 1) > v THEN r ELSE SqrtFrom(v, r + 1)
\* numpy.sqrt on the variance, to the unit below
Sqrt(v) == SqrtFrom(v, 0)

RECURSIVE SumSeq(_)
SumSeq(s) == IF s = <<>> THEN 0 ELSE Head(s) + SumSeq(Tail(s))

\* --------------------------------------------------------------- pandas
\* Series.ffill(): a gap takes the last price before it; leading gaps stay
RECURSIVE Pad(_, _)
Pad(col, t) ==
    IF ~IsNaN(col[t]) THEN col[t]
    ELSE IF t = 1 THEN NaN
    ELSE Pad(col, t - 1)

Filled(col, fill) == [t \in 1..Len(col) |-> IF fill = "pad" THEN Pad(col, t) ELSE col[t]]

\* Series.pct_change(): col[t] / col[t-1] - 1 on the (filled) column
PctChange(col, fill) ==
    LET f == Filled(col, fill)
    IN [t \in 1..Len(col) |->
          IF t = 1 THEN NaN
          ELSE IF IsNaN(f[t]) \/ IsNaN(f[t - 1]) THEN NaN
          ELSE Num(Frac(Val(f[t]) - Val(f[t - 1]), Val(f[t - 1])))]

\* Series.shift(1)
Shift1(s) == [t \in 1..Len(s) |-> IF t = 1 THEN NaN ELSE s[t - 1]]

\* Series.fillna(0)
FillNa0(s) == [t \in 1..Len(s) |-> IF IsNaN(s[t]) THEN Num(0) ELSE s[t]]

\* self.data['Close'].pct_change()
DailyReturns(table, fill) == [tk \in DOMAIN table |-> PctChange(table[tk], fill)]

\* (daily_returns > 0).astype(int): NaN > 0 is False
OutcomesOf(r) == [t \in 1..Len(r) |-> IF ~IsNaN(r[t]) /\ Val(r[t]) > 0 THEN 1 ELSE 0]

\* a faulty variant: the same day's return, the shift left out
FeaturesUnshifted(r) == FillNa0(r)

\* daily_returns.shift(1).fillna(0)
FeaturesOf(r) == FillNa0(Shift1(r))

\* preprocess_data(): (features, outcomes), one column per ticker
PreprocessData(table, fill) ==
    LET daily_returns == DailyReturns(table, fill)
    IN [features |-> [tk \in DOMAIN table |-> FeaturesOf(daily_returns[tk])],
        outcomes |-> [tk \in DOMAIN table |-> OutcomesOf(daily_returns[tk])]]

\* -------------------------------------------------------------- sklearn
\* numpy.random.RandomState(42).permutation(n), as 1-based row positions
Permutation42(n) ==
    CASE n = 1 -> <<1>>
      [] n = 2 -> <<2, 1>>
      [] n = 3 -> <<1, 2, 3>>
      [] n = 4 -> <<2, 4, 1, 3>>
      [] n = 5 -> <<2, 5, 3, 1, 4>>
      [] n = 6 -> <<1, 2, 6, 3, 5, 4>>

\* train_test_split(X, y, test_size=0.2, random_state=42) on n rows:
\* n_test = ceil(0.2 n), n_train = n - n_test, the test rows lead the permutation
TrainTestSplit(n) ==
    LET n_test == (2 * n + 9) \div 10
        perm == Permutation42(n)
    IN [test |-> SubSeq(perm, 1, n_test), train |-> SubSeq(perm, n_test + 1, n)]

\* StandardScaler().fit(X): mean_ and scale_, a zero scale_ becoming 1.0
ScalerFit(X) ==
    LET n == Len(X)
        mean == SumSeq([i \in 1..n |-> Val(X[i])]) \div n
        var == SumSeq([i \in 1..n |-> (Val(X[i]) - mean) * (Val(X[i]) - mean)]) \div n
        sd == Sqrt(var)
    IN [mean |-> mean, scale |-> IF sd = 0 THEN 10000 ELSE sd]

\* scaler.transform([[x]]): (x - mean_) / scale_, NaN passing through
ScalerTransform(scaler, x) ==
    IF IsNaN(x) THEN NaN ELSE Num(Frac(Val(x) - scaler.mean, scaler.scale))

\* a faulty variant: fit_transform at inference refits the scaler on the input
ScalerRefit(scaler, x) == IF IsNaN(x) THEN scaler ELSE ScalerFit(<<x>>)

\* the scaler object after scaler.transform: transform fits nothing
ScalerAfterTransform(scaler, x) == scaler

\* model.predict(feature): check_array refuses a NaN input with ValueError
PredictRaises(z) == IsNaN(z)

\* model.predict(feature)[0]: class 1 where the decision function is positive
LogisticPredict(clf, z) ==
    IF clf.coef * Val(z) + clf.intercept * 10000 > 0 THEN 1 ELSE 0

\* the classes present in y
Classes(y) == {y[i] : i \in 1..Len(y)}

\* ----------------------------------------------------------------- state
VARIABLES
    market,       \* what yf.download returns for (tickers, start_date, end_date)
    fill,         \* the installed pandas' pct_change fill method
    lbfgs,        \* the classifier LogisticRegression().fit converges to, per asset
    data,         \* self.data: None (<<>>) or <<the Close table>>
    models,       \* self.models: ticker -> [model, scaler], keys in insertion order
    allocations,  \* self.allocations: ticker -> list of decisions
    frame,        \* the running method and its locals
    raised,       \* the exception the last finished call left to its caller
    calls,        \* history: the predict_daily_allocations calls made so far
    passed,       \* history: the (ticker, date, value) last given to scaler.transform
    walked,       \* history: per ticker, the date each allocations entry was made on
    preprocessed  \* what a direct preprocess_data() call last returned (<<>>: none yet)

vars == <<market, fill, lbfgs, data, models, allocations, frame, raised, calls, passed, walked,
          preprocessed>>
env == <<market, fill, lbfgs, preprocessed>>

Idle == [op |-> "idle"]

\* one iteration of the loop over self.tickers: split, scale, fit.
\* <<>> when train_test_split or LogisticRegression.fit raises ValueError,
\* else <<(model, scaler)>>
FitAsset(tk, features, outcomes, solver) ==
    LET X == features[tk]
        y == outcomes[tk]
        split == TrainTestSplit(Len(X))
        X_train == [k \in 1..Len(split.train) |-> X[split.train[k]]]
        y_train == [k \in 1..Len(split.train) |-> y[split.train[k]]]
    IN IF Len(split.train) = 0 THEN <<>>
       ELSE IF Cardinality(Classes(y_train)) < 2 THEN <<>>
       ELSE <<[model |-> solver[tk], scaler |-> ScalerFit(X_train)]>>

\* whether train_models' loop body succeeds for tk on the table
Fittable(table, f, tk) ==
    LET pre == PreprocessData(table, f)
    IN FitAsset(tk, pre.features, pre.outcomes, [k \in TickerSet |-> 0]) # <<>>

\* the solver's result matters only for an asset it is run on
NoFit == [coef |-> 0, intercept |-> 0]
Solvers(table, f) ==
    {s \in [TickerSet -> ClassifierParams \cup {NoFit}] :
        \A tk \in TickerSet : (s[tk] = NoFit) <=> ~Fittable(table, f, tk)}

\* the price tables of the run: a column of the pool per asset, no gaps
Tables == [TickerSet -> SeriesPool]

\* __init__.  The tables hold no gap, and on a table without gaps pct_change
\* gives the same returns under either fill method: one is fixed.
Init ==
    /\ market \in Tables
    /\ fill = "pad"
    /\ lbfgs \in Solvers(market, fill)
    /\ data = <<>>
    /\ models = <<>>
    /\ allocations = [tk \in TickerSet |-> <<>>]
    /\ frame = Idle
    /\ raised = "none"
    /\ calls = <<>>
    /\ passed = <<>>
    /\ walked = [tk \in TickerSet |-> <<>>]
    /\ preprocessed = <<>>

\* self.data['Close']
Close == data[1]

\* the keys of self.models in dict order: train_models inserts them in the
\* order of self.tickers
ModelKeys == SelectSeq(Tickers, LAMBDA tk : tk \in DOMAIN models)

\* load_data()
LoadData ==
    /\ frame = Idle
    /\ data' = <<market>>
    /\ raised' = "none"
    /\ UNCHANGED <<env, models, allocations, frame, calls, passed, walked>>

\* ------------------------------------------------------------ train_models
\* train_models() is entered: preprocess_data() runs, or self.data is None
TrainBegin ==
    /\ frame = Idle
    /\ IF data = <<>>
       THEN /\ raised' = "TypeError"
            /\ frame' = frame
       ELSE LET pre == PreprocessData(Close, fill)
            IN /\ raised' = "none"
               /\ frame' = [op |-> "train", i |-> 1,
                            features |-> pre.features, outcomes |-> pre.outcomes]
    /\ UNCHANGED <<env, data, models, allocations, calls, passed, walked>>

\* the loop body for self.tickers[i]; an exception leaves the method
TrainTicker ==
    /\ frame.op = "train"
    /\ frame.i <= Len(Tickers)
    /\ LET tk == Tickers[frame.i]
           fit == FitAsset(tk, frame.features, frame.outcomes, lbfgs)
       IN IF fit = <<>>
          THEN /\ raised' = "ValueError"
               /\ frame' = Idle
               /\ models' = models
          ELSE /\ raised' = raised
               /\ frame' = [frame EXCEPT !.i = @ + 1]
               /\ models' = [k \in DOMAIN models \cup {tk} |->
                               IF k = tk THEN fit[1] ELSE models[k]]
    /\ UNCHANGED <<env, data, allocations, calls, passed, walked>>

\* the loop is exhausted: train_models returns None
TrainReturn ==
    /\ frame.op = "train"
    /\ frame.i > Len(Tickers)
    /\ frame' = Idle
    /\ UNCHANGED <<env, data, models, allocations, raised, calls, passed, walked>>

\* ------------------------------------------------ predict_daily_allocations
RECURSIVE Ascending(_)
\* the elements of a set of row positions, ascending
Ascending(S) ==
    IF S = {} THEN <<>>
    ELSE LET lo == CHOOSE x \in S : \A y \in S : x <= y
         IN <<lo>> \o Ascending(S \ {lo})

\* self.data.loc[(index >= start_date) & (index <= end_date)].index
FilteredIndex(start_date, end_date) ==
    Ascending({d \in Dates : d >= start_date /\ d <= end_date})

\* index[:-1]
AllButLast(s) == IF s = <<>> THEN <<>> ELSE SubSeq(s, 1, Len(s) - 1)

\* a faulty variant: the following row's return
NextDayReturns(table, f, current_date) ==
    [tk \in DOMAIN table |-> DailyReturns(table, f)[tk][current_date + 1]]

\* self.data['Close'].pct_change().loc[current_date]
LastDayReturns(table, f, current_date) ==
    [tk \in DOMAIN table |-> DailyReturns(table, f)[tk][current_date]]

\* a faulty variant: insert(0, prediction)
PrependDecision(list, prediction) == <<prediction>> \o list

\* self.allocations[ticker].append(prediction)
AppendDecision(list, prediction) == Append(list, prediction)

\* the dates a call may be given: from the first loaded date, the second or the
\* last, to the last or the one before it (0 to NDates dates in range)
StartArgs == {1, 2, NDates}
EndArgs == {NDates - 1, NDates}

\* the call is entered: the date mask and filtered_data, or self.data is None
PredictBegin(start_date, end_date) ==
    /\ frame = Idle
    /\ Len(calls) < MaxCalls
    /\ IF data = <<>>
       THEN /\ raised' = "AttributeError"
            /\ frame' = frame
            /\ calls' = Append(calls, [n |-> 0, dates |-> <<>>, registry |-> DOMAIN models,
                                       status |-> "AttributeError", ret |-> allocations])
       ELSE LET filtered == FilteredIndex(start_date, end_date)
            IN /\ raised' = "none"
               /\ frame' = [op |-> "predict", dates |-> AllButLast(filtered), d |-> 1, m |-> 1]
               /\ calls' = Append(calls, [n |-> Len(filtered), dates |-> AllButLast(filtered),
                                          registry |-> DOMAIN models,
                                          status |-> "running", ret |-> allocations])
    /\ UNCHANGED <<env, data, models, allocations, passed, walked>>

\* the inner loop body for (current_date, ticker): transform, predict, append
PredictStep ==
    /\ frame.op = "predict"
    /\ frame.d <= Len(frame.dates)
    /\ frame.m <= Len(ModelKeys)
    /\ LET current_date == frame.dates[frame.d]
           ticker == ModelKeys[frame.m]
           x == LastDayReturns(Close, fill, current_date)[ticker]
           feature == ScalerTransform(models[ticker].scaler, x)
       IN /\ passed' = <<[ticker |-> ticker, date |-> current_date, x |-> x]>>
          /\ models' = [models EXCEPT ![ticker].scaler = ScalerAfterTransform(@, x)]
          /\ IF PredictRaises(feature)
             THEN /\ raised' = "ValueError"
                  /\ frame' = Idle
                  /\ calls' = [calls EXCEPT ![Len(calls)].status = "ValueError",
                                            ![Len(calls)].ret = allocations]
                  /\ UNCHANGED <<allocations, walked>>
             ELSE /\ allocations' =
                        [allocations EXCEPT ![ticker] =
                            AppendDecision(@, LogisticPredict(models[ticker].model, feature))]
                  /\ walked' = [walked EXCEPT ![ticker] = Append(@, current_date)]
                  /\ frame' = IF frame.m < Len(ModelKeys)
                              THEN [frame EXCEPT !.m = @ + 1]
                              ELSE [frame EXCEPT !.m = 1, !.d = @ + 1]
                  /\ UNCHANGED <<raised, calls>>
    /\ UNCHANGED <<env, data>>

\* the walk is exhausted (or no model is registered): return self.allocations
PredictReturn ==
    /\ frame.op = "predict"
    /\ frame.d > Len(frame.dates) \/ Len(ModelKeys) = 0
    /\ frame' = Idle
    /\ calls' = [calls EXCEPT ![Len(calls)].status = "returned",
                              ![Len(calls)].ret = allocations]
    /\ UNCHANGED <<env, data, models, allocations, raised, passed, walked>>

Next ==
    \/ LoadData
    \/ TrainBegin
    \/ TrainTicker
    \/ TrainReturn
    \/ \E start_date \in StartArgs, end_date \in EndArgs : PredictBegin(start_date, end_date)
    \/ PredictStep
    \/ PredictReturn

Spec == Init /\ [][Next]_vars

\* ------------------------------------------- preprocess_data on its own
\* the tables preprocess_data is tried on: every column of prices and gaps for
\* the first asset, a pool column for the others, under either fill method
GapTables ==
    {[tk \in TickerSet |-> IF tk = Tickers[1] THEN col ELSE other] :
        col \in [Dates -> GapPriceValues], other \in SeriesPool}

InitFeatures ==
    /\ market \in GapTables
    /\ fill \in FillMethods
    /\ lbfgs = [tk \in TickerSet |-> NoFit]
    /\ data = <<>>
    /\ models = <<>>
    /\ allocations = [tk \in TickerSet |-> <<>>]
    /\ frame = Idle
    /\ raised = "none"
    /\ calls = <<>>
    /\ passed = <<>>
    /\ walked = [tk \in TickerSet |-> <<>>]
    /\ preprocessed = <<>>

\* a direct call of preprocess_data(): returns (features, outcomes), or raises
\* TypeError where self.data is None
PreprocessCall ==
    /\ frame = Idle
    /\ IF data = <<>>
       THEN /\ raised' = "TypeError"
            /\ preprocessed' = preprocessed
       ELSE /\ raised' = "none"
            /\ preprocessed' = <<PreprocessData(Close, fill)>>
    /\ UNCHANGED <<market, fill, lbfgs, data, models, allocations, frame, calls, passed, walked>>

NextFeatures ==
    \/ LoadData
    \/ PreprocessCall

SpecFeatures == InitFeatures /\ [][NextFeatures]_vars

\* ------------------------------------------------------------ properties
\* lines 107-114 for one (current_date, ticker) on a table: <<>> where
\* model.predict raises, else <<the decision>>
DecisionOn(table, f, registry, tk, current_date) ==
    LET x == LastDayReturns(table, f, current_date)[tk]
        feature == ScalerTransform(registry[tk].scaler, x)
    IN IF PredictRaises(feature) THEN <<>>
       ELSE <<LogisticPredict(registry[tk].model, feature)>>

Last(list) == list[Len(list)]

\* what an altered cell holds: a gap, or a price no table of the run holds
AltCells == {NaN, Num(1)}

\* the table with every cell dated after d replaced
AltTable(table, d, future) ==
    [tk \in DOMAIN table |->
        [t \in Dates |-> IF t <= d THEN table[tk][t] ELSE future[tk][t]]]

\* a walk step of the running call has just appended a decision
JustAppended ==
    /\ frame.op = "predict"
    /\ passed # <<>>
    /\ frame.d > 1 \/ frame.m > 1

\* C1 (as claimed): a call whose filter selects N >= 1 dates returns, for every
\* registered asset, a sequence of exactly N - 1 entries, whatever the object's
\* state before the call.
C1_OutputLengthLaw ==
    \A i \in 1..Len(calls) :
        (calls[i].status = "returned" /\ calls[i].n >= 1)
            => \A tk \in calls[i].registry : Len(calls[i].ret[tk]) = calls[i].n - 1

\* C2: the decision appended while processing date d is the same on every price
\* table that agrees with the loaded one on all dates <= d, however the prices
\* dated after d are altered (gaps included, under either fill method).
C2_Causality ==
    JustAppended =>
        LET tk == passed[1].ticker
            d == passed[1].date
        IN \A future \in [TickerSet -> [(d + 1)..NDates -> AltCells]], f \in FillMethods :
              DecisionOn(AltTable(Close, d, future), f, models, tk, d)
                  = <<Last(allocations[tk])>>

\* C2 witness: a decision was appended for a date that has two later dates
C2_Witness ==
    /\ JustAppended
    /\ passed[1].date + 2 <= NDates
    /\ Len(allocations[passed[1].ticker]) >= 1

\* C3 (as claimed): the value given to the normalizer for a walked date is that
\* date's return with an undefined return replaced by 0, i.e. the feature of the
\* following day, and no walk is cut short: a walk that starts on the first
\* loaded date emits its decisions too.
C3_PredictionInputIsFeature ==
    /\ passed # <<>> =>
          passed[1].x = PreprocessData(Close, fill).features[passed[1].ticker][passed[1].date + 1]
    /\ \A i \in 1..Len(calls) : calls[i].status # "ValueError"

\* the column with every cell from row t on replaced
AltColumn(col, t, future) == [u \in Dates |-> IF u < t THEN col[u] ELSE future[u]]

\* C4: for every asset and row t of what preprocess_data returns, the label is
\* 0 or 1 and is 1 exactly when the row's return is defined and above zero; the
\* feature is 0 in the first row and otherwise the previous row's return, 0
\* standing in for an undefined one; and the feature of row t is the same on
\* every column that agrees with the loaded one before row t.
C4_FeaturesAndLabels ==
    preprocessed # <<>> =>
        \A tk \in TickerSet, t \in Dates :
            LET r == DailyReturns(Close, fill)[tk]
                feature == preprocessed[1].features[tk][t]
                label == preprocessed[1].outcomes[tk][t]
            IN /\ label \in {0, 1}
               /\ (label = 1) <=> (~IsNaN(r[t]) /\ Val(r[t]) > 0)
               /\ feature = IF t = 1 THEN Num(0)
                            ELSE IF IsNaN(r[t - 1]) THEN Num(0)
                            ELSE r[t - 1]
               /\ \A future \in [t..NDates -> AltCells] :
                     FeaturesOf(PctChange(AltColumn(Close[tk], t, future), fill))[t] = feature

\* C4 witness: the returned series of an asset hold a rise, a fall, an unchanged
\* price and a gap
C4_Witness ==
    /\ preprocessed # <<>>
    /\ LET r == DailyReturns(Close, fill)[Tickers[1]]
       IN /\ \E t \in Dates : preprocessed[1].outcomes[Tickers[1]][t] = 1
          /\ \E t \in Dates : t > 1 /\ IsNaN(r[t])
          /\ \E t \in Dates : ~IsNaN(r[t]) /\ Val(r[t]) < 0

\* C5 (as claimed): a call made while a requested asset has no registered model
\* does not return normally with nothing to tell that asset's result from a
\* normal one: it ends in an error.
C5_UnregisteredAssetIsAnError ==
    \A i \in 1..Len(calls) :
        calls[i].status = "returned" => calls[i].registry = TickerSet

\* C6 (as claimed): when train_models ends, every asset whose split and fit
\* succeed is registered and every asset whose split or fit fails is not,
\* wherever the failing asset stands in the ticker list.
C6_FaultIsolation ==
    [][(frame.op = "train" /\ frame'.op = "idle")
          => \A tk \in TickerSet : (tk \in DOMAIN models') <=> Fittable(Close, fill, tk)]_vars

\* C7 (as claimed): two calls with the same registry and the same date range
\* return identical allocation tables, the second call on the same object
\* included.
C7_Determinism ==
    \A i \in 1..Len(calls), j \in 1..Len(calls) :
        (/\ i < j
         /\ calls[i].status = "returned" /\ calls[j].status = "returned"
         /\ calls[i].registry = calls[j].registry
         /\ calls[i].n = calls[j].n /\ calls[i].dates = calls[j].dates)
            => calls[i].ret = calls[j].ret

\* C8: from entry to exit, predict_daily_allocations leaves the registry (the
\* registered assets, each normalizer's statistics, each classifier's
\* parameters) and the price table as they were.
C8_RegistryReadOnly ==
    [][(frame.op = "predict" \/ frame'.op = "predict")
          => (models' = models /\ data' = data)]_vars

\* C8 witness: a walk is past its first date with every asset registered
C8_Witness ==
    /\ JustAppended
    /\ frame.d > 1
    /\ DOMAIN models = TickerSet

\* C9: a step changes an asset's allocation sequence only inside a prediction
\* walk and only by appending one entry at its end; the walk's dates ascend
\* strictly and are visited in that order; the k-th entry a call appends for an
\* asset is the decision for the k-th in-range date.
C9_ChronologicalAppend ==
    [][/\ \A tk \in TickerSet :
            \/ allocations'[tk] = allocations[tk]
            \/ /\ frame.op = "predict"
               /\ Len(allocations'[tk]) = Len(allocations[tk]) + 1
               /\ SubSeq(allocations'[tk], 1, Len(allocations[tk])) = allocations[tk]
               /\ Len(allocations'[tk]) - Len(Last(calls).ret[tk]) = frame.d
               /\ frame.dates[frame.d] = FilteredIndex(frame.dates[1], NDates)[frame.d]
               /\ DecisionOn(Close, fill, models, tk, frame.dates[frame.d])
                      = <<Last(allocations'[tk])>>
       /\ (frame.op = "predict" /\ frame'.op = "predict")
            => /\ frame'.dates = frame.dates
               /\ frame'.d >= frame.d
               /\ \A a \in 1..Len(frame.dates), b \in 1..Len(frame.dates) :
                     a < b => frame.dates[a] < frame.dates[b]]_vars

\* C9 witness: a call made on a non-empty table has appended its second entry
C9_Witness ==
    /\ JustAppended
    /\ frame.d = 3
    /\ \E tk \in TickerSet : Len(allocations[tk]) >= 3

RECURSIVE SumExpected(_, _)
\* the sum of max(N_i - 1, 0) over the first k calls made while tk was registered
SumExpected(tk, k) ==
    IF k = 0 THEN 0
    ELSE SumExpected(tk, k - 1)
           + (IF tk \in calls[k].registry /\ calls[k].n >= 1 THEN calls[k].n - 1 ELSE 0)

\* C10 (as claimed): once the calls made so far are over, each registered
\* asset's sequence has as many entries as those calls' max(N_i - 1, 0) add up to.
C10_Accumulation ==
    frame = Idle =>
        \A tk \in DOMAIN models : Len(allocations[tk]) = SumExpected(tk, Len(calls))

====
